---------------------------- MODULE Spec2Model ----------------------------
(***************************************************************************)
(* A model of src/tlslib.c of ocserv: the record I/O helpers (tls_send,    *)
(* tls_send_nb, tls_recv, tls_printf), the teardown of the session cache   *)
(* (tls_cache_deinit), the key-delegation client (key_cb_common_func) and  *)
(* the certificate verification callback (verify_certificate_cb).          *)
(*                                                                         *)
(* Each component has its own specification (SpecIO, SpecCache, SpecKey,   *)
(* SpecVerify, SpecOverhead for tls_get_overhead); the variables of the    *)
(* other components keep their initial values.                             *)
(***************************************************************************)
EXTENDS Integers, Sequences, FiniteSets, TLC

VARIABLES
    \* ---- record I/O (tls_send, tls_send_nb, tls_recv, tls_printf) ----
    pc,         \* position of the running I/O function: "idle", "loop", "returned"
    fn,         \* the entry point the caller invoked
    callee,     \* the function whose loop is running (tls_printf runs tls_send)
    data_size,  \* the data_size argument of the running function
    left,       \* local `left` of tls_send / tls_send_nb
    p,          \* local `p`, as an offset from `data`
    ret,        \* local `ret`, the last engine result
    rv,         \* the value returned to the caller
    hist,       \* the engine calls of this invocation: <<[off, req, res], ...>>
    \* ---- session cache (tls_cache_deinit) ----
    cpc,        \* position inside tls_cache_deinit
    ht,         \* db->ht: the entry pointers of the table, in iteration order
    heap,       \* the tls_cache_st objects, by pointer
    orig,       \* the objects as they were when tls_cache_deinit was entered
    iter,       \* struct htable_iter: index of the current slot
    cache,      \* local `cache`: an entry pointer or NULL
    db_entries, \* db->entries
    db_freed,   \* whether talloc_free(db) has run
    released,   \* what talloc_free received: <<[ptr, data, size], ...>>
    observed,   \* what the last lookup of another connection found in the table
    \* ---- key delegation (key_cb_common_func) ----
    kpc,        \* position inside key_cb_common_func
    op,         \* the operation the engine asked for: "sign" or "decrypt"
    idx,        \* cdata->idx
    type,       \* the `type` argument
    raw_data,   \* the operand bytes (raw_data->data, raw_data->size)
    sd,         \* the socket: "none", "open" or "closed"
    iov,        \* the bytes of iov[0] and iov[1] handed to writev
    wire,       \* the bytes transferred to the custodian on sd
    length,     \* local `length`, the response length field
    output,     \* the caller's gnutls_datum_t: [data, size]
    block,      \* the block gnutls_malloc returned: "none", "live" or "freed"
    body,       \* number of body bytes stored into the block
    kret,       \* the value returned to the engine
    sys,        \* the system calls of this operation, in order
    \* ---- verification callback (verify_certificate_cb) ----
    vpc,        \* position inside verify_certificate_cb
    session,    \* the session the callback runs for: "tls", "dtls", or "nows"
    cert_auth_ok,        \* ws->cert_auth_ok
    cisco_client_compat, \* ws->config->cisco_client_compat
    vcall,      \* result of the connection's last gnutls_certificate_verify_peers2
                \* call, [ret, status], or NoCall when the running gate has made none
    pret,       \* result of gnutls_certificate_verification_status_print or None
    vret,       \* the value the callback returned to the engine
    vcalls,     \* number of gnutls_certificate_verify_peers2 calls so far
    handshakes, \* number of callback runs so far
    \* ---- overhead accounting (tls_get_overhead) ----
    opc,        \* position inside tls_get_overhead
    version,    \* the `version` argument
    cipher,     \* the `cipher` argument
    mac,        \* the `mac` argument
    block_size, \* local `block_size`
    overhead    \* local `overhead`, returned at the end

ioVars == <<pc, fn, callee, data_size, left, p, ret, rv, hist>>

cacheVars == <<cpc, ht, heap, orig, iter, cache, db_entries, db_freed, released,
               observed>>

keyVars == <<kpc, op, idx, type, raw_data, sd, iov, wire, length, output, block,
             body, kret, sys>>

verifyVars == <<vpc, session, cert_auth_ok, cisco_client_compat, vcall, pret,
                vret, vcalls, handshakes>>

overheadVars == <<opc, version, cipher, mac, block_size, overhead>>

\* the variables an action of one component leaves alone
notIO == <<cacheVars, keyVars, verifyVars, overheadVars>>
notCache == <<ioVars, keyVars, verifyVars, overheadVars>>
notKey == <<ioVars, cacheVars, verifyVars, overheadVars>>
notVerify == <<ioVars, cacheVars, keyVars, overheadVars>>
notOverhead == <<ioVars, cacheVars, keyVars, verifyVars>>

vars == <<ioVars, cacheVars, keyVars, verifyVars, overheadVars>>

---------------------------------------------------------------------------
(* Bounds *)
MaxSize == 3        \* payload sizes 0..MaxSize; largest partial count the engine accepts
MaxCalls == 3       \* engine calls followed within one invocation
MaxExtra == 2       \* tls_printf renderings up to BufSize + MaxExtra bytes
MaxEntries == 2     \* entries in the session cache
MaxData == 2        \* bytes of the session_data array of an entry
MaxIdx == 1         \* key indices 0..MaxIdx
MaxOperand == 2     \* operand lengths 0..MaxOperand
MaxLength == 2      \* response length fields 0..MaxLength
MaxHandshakes == 3  \* runs of the verification callback on one connection

(* Result codes of the engine (gnutls.h) *)
GNUTLS_E_AGAIN == -28
GNUTLS_E_INTERRUPTED == -52
GNUTLS_E_PUSH_ERROR == -53
GNUTLS_E_INVALID_SESSION == -10

GNUTLS_E_INTERNAL_ERROR == -59
GNUTLS_E_CERTIFICATE_ERROR == -43
GNUTLS_E_NO_CERTIFICATE_FOUND == -49
GNUTLS_E_MEMORY_ERROR == -25

(* char buf[1024] of tls_printf *)
BufSize == 1024

None == -1000       \* "no value yet" for ret and rv

NULL == 0           \* the null pointer; objects have pointers 1, 2, ...

---------------------------------------------------------------------------
(* The engine: results gnutls_record_send / gnutls_record_recv can give.   *)

NegativeResults ==
    {GNUTLS_E_AGAIN, GNUTLS_E_INTERRUPTED, GNUTLS_E_PUSH_ERROR, GNUTLS_E_INVALID_SESSION}

\* byte counts the engine may report for a request of n bytes
Counts(n) == {k \in 1..n : k <= MaxSize \/ k = n}

\* gnutls_record_send(session, p, n): 0, a count of at most n, or a code
gnutls_record_send(n) == {0} \cup Counts(n) \cup NegativeResults

\* gnutls_record_recv(session, data, n): 0 (peer shutdown), a count, or a code
gnutls_record_recv(n) == {0} \cup Counts(n) \cup NegativeResults

---------------------------------------------------------------------------
(* tls_send, lines 45-65 *)

\* line 54, mutated: "interrupted" is no longer retried
tls_send_fatal_noeintr(r) == r < 0 /\ r # GNUTLS_E_AGAIN

\* line 54: if (ret < 0 && (ret != GNUTLS_E_AGAIN && ret != GNUTLS_E_INTERRUPTED))
tls_send_fatal(r) == r < 0 /\ (r # GNUTLS_E_AGAIN /\ r # GNUTLS_E_INTERRUPTED)

\* lines 48-50: the locals at entry
SendEntry(f, c, n) ==
    /\ fn' = f
    /\ callee' = c
    /\ data_size' = n
    /\ left' = n
    /\ p' = 0
    /\ ret' = None
    /\ rv' = None
    /\ hist' = <<>>
    /\ pc' = "loop"

\* the caller invokes tls_send(session, data, n)
tls_send_call ==
    /\ pc \in {"idle", "returned"}
    /\ \E n \in 0..MaxSize : SendEntry("tls_send", "tls_send", n)
    /\ UNCHANGED notIO

\* one iteration of while (left > 0), lines 52-62
tls_send_iter ==
    /\ pc = "loop" /\ callee = "tls_send"
    /\ left > 0
    /\ Len(hist) < MaxCalls
    /\ \E r \in gnutls_record_send(data_size) :
         /\ ret' = r
         /\ hist' = Append(hist, [off |-> p, req |-> data_size, res |-> r])
         /\ IF tls_send_fatal(r)
              THEN /\ rv' = r
                   /\ pc' = "returned"
                   /\ UNCHANGED <<left, p>>
              ELSE /\ IF r > 0
                        THEN left' = left - r /\ p' = p + r
                        ELSE UNCHANGED <<left, p>>
                   /\ UNCHANGED <<rv, pc>>
    /\ UNCHANGED <<fn, callee, data_size>>
    /\ UNCHANGED notIO

\* line 64: return data_size
tls_send_return ==
    /\ pc = "loop" /\ callee = "tls_send"
    /\ ~(left > 0)
    /\ rv' = data_size
    /\ pc' = "returned"
    /\ UNCHANGED <<fn, callee, data_size, left, p, ret, hist>>
    /\ UNCHANGED notIO

---------------------------------------------------------------------------
(* tls_send_nb, lines 68-90 *)

\* line 77, mutated: "would block" is retried as in tls_send
tls_send_nb_stop_retry_again(r) ==
    r < 0 /\ r # GNUTLS_E_INTERRUPTED /\ r # GNUTLS_E_AGAIN

\* line 77: if (ret < 0 && ret != GNUTLS_E_INTERRUPTED)
tls_send_nb_stop(r) == r < 0 /\ r # GNUTLS_E_INTERRUPTED

\* the caller invokes tls_send_nb(session, data, n)
tls_send_nb_call ==
    /\ pc \in {"idle", "returned"}
    /\ \E n \in 0..MaxSize : SendEntry("tls_send_nb", "tls_send_nb", n)
    /\ UNCHANGED notIO

\* one iteration of while (left > 0), lines 75-87
tls_send_nb_iter ==
    /\ pc = "loop" /\ callee = "tls_send_nb"
    /\ left > 0
    /\ Len(hist) < MaxCalls
    /\ \E r \in gnutls_record_send(data_size) :
         /\ ret' = r
         /\ hist' = Append(hist, [off |-> p, req |-> data_size, res |-> r])
         /\ IF tls_send_nb_stop(r)
              THEN /\ rv' = IF r = GNUTLS_E_AGAIN THEN data_size ELSE r
                   /\ pc' = "returned"
                   /\ UNCHANGED <<left, p>>
              ELSE /\ IF r > 0
                        THEN left' = left - r /\ p' = p + r
                        ELSE UNCHANGED <<left, p>>
                   /\ UNCHANGED <<rv, pc>>
    /\ UNCHANGED <<fn, callee, data_size>>
    /\ UNCHANGED notIO

\* line 89: return data_size
tls_send_nb_return ==
    /\ pc = "loop" /\ callee = "tls_send_nb"
    /\ ~(left > 0)
    /\ rv' = data_size
    /\ pc' = "returned"
    /\ UNCHANGED <<fn, callee, data_size, left, p, ret, hist>>
    /\ UNCHANGED notIO

---------------------------------------------------------------------------
(* tls_recv, lines 115-124 *)

\* line 121, mutated: only "interrupted" is retried
tls_recv_retry_eintr_only(r) == r < 0 /\ r = GNUTLS_E_INTERRUPTED

\* line 121: while (ret < 0 && (ret == GNUTLS_E_INTERRUPTED || ret == GNUTLS_E_AGAIN))
tls_recv_retry(r) == r < 0 /\ (r = GNUTLS_E_INTERRUPTED \/ r = GNUTLS_E_AGAIN)

\* the caller invokes tls_recv(session, data, n)
tls_recv_call ==
    /\ pc \in {"idle", "returned"}
    /\ \E n \in 0..MaxSize :
         /\ fn' = "tls_recv"
         /\ callee' = "tls_recv"
         /\ data_size' = n
         /\ ret' = None
         /\ rv' = None
         /\ hist' = <<>>
         /\ pc' = "loop"
         /\ UNCHANGED <<left, p>>
    /\ UNCHANGED notIO

\* one iteration of the do-while and, when it ends, the return (lines 119-123)
tls_recv_iter ==
    /\ pc = "loop" /\ callee = "tls_recv"
    /\ Len(hist) < MaxCalls
    /\ \E r \in gnutls_record_recv(data_size) :
         /\ ret' = r
         /\ hist' = Append(hist, [off |-> 0, req |-> data_size, res |-> r])
         /\ IF tls_recv_retry(r)
              THEN UNCHANGED <<rv, pc>>
              ELSE rv' = r /\ pc' = "returned"
    /\ UNCHANGED <<fn, callee, data_size, left, p>>
    /\ UNCHANGED notIO

---------------------------------------------------------------------------
(* tls_printf, lines 148-162 *)

\* lengths of the full rendering of fmt with its arguments
RenderLengths == (0..MaxSize) \cup ((BufSize - 2)..(BufSize + MaxExtra))

\* vsnprintf(buf, size, fmt, args) for a rendering of n bytes: stores at most
\* size - 1 bytes and a NUL, and returns the length of the untruncated rendering
vsnprintf(size, n) ==
    [stored |-> IF n < size THEN n ELSE size - 1, result |-> n]

\* lines 155-160: s = vsnprintf(buf, 1023, fmt, args); return tls_send(session, buf, s)
tls_printf_call ==
    /\ pc \in {"idle", "returned"}
    /\ \E n \in RenderLengths :
         LET s == vsnprintf(BufSize - 1, n).result
         IN  SendEntry("tls_printf", "tls_send", s)
    /\ UNCHANGED notIO

---------------------------------------------------------------------------
NextIO ==
    \/ tls_send_call
    \/ tls_send_iter
    \/ tls_send_return
    \/ tls_send_nb_call
    \/ tls_send_nb_iter
    \/ tls_send_nb_return
    \/ tls_recv_call
    \/ tls_recv_iter
    \/ tls_printf_call

---------------------------------------------------------------------------
(* tls_cache_deinit, lines 198-219 *)

\* contents of a byte of session material or of stale memory
Bytes == {0, 7}

\* a tls_cache_st: session_id_size, session_data[MaxData], session_data_size
CacheEntries ==
    [session_id_size : 1..2,
     session_data : [1..MaxData -> Bytes],
     session_data_size : 0..MaxData,
     freed : {FALSE}]

\* htable_first(&db->ht, &iter): the first slot of the table, or NULL
htable_first(t) == IF Len(t) = 0 THEN [i |-> 0, e |-> NULL] ELSE [i |-> 1, e |-> t[1]]

\* htable_next(&db->ht, &iter): the slot after the iterator, or NULL
htable_next(t, i) ==
    IF i + 1 > Len(t) THEN [i |-> i, e |-> NULL] ELSE [i |-> i + 1, e |-> t[i + 1]]

\* safe_memset(s, c, n): the first n bytes of s become c
safe_memset(d, c, n) == [k \in DOMAIN d |-> IF k <= n THEN c ELSE d[k]]

\* line 205, mutated: an entry holding a single byte is not scrubbed
has_session_data_gt1(e) == e.session_data_size > 1

\* line 205: if (cache->session_data_size > 0)
has_session_data(e) == e.session_data_size > 0

\* line 203: cache = htable_first(&db->ht, &iter)
cache_first ==
    /\ cpc = "first"
    /\ iter' = htable_first(ht).i
    /\ cache' = htable_first(ht).e
    /\ cpc' = "while"
    /\ UNCHANGED <<ht, heap, orig, db_entries, db_freed, released>>
    /\ UNCHANGED observed
    /\ UNCHANGED notCache

\* lines 204-210, mutated: talloc_free(cache) is inside the if, so an entry
\* without session data is passed over
cache_while_skip_empty ==
    /\ cpc = "while"
    /\ cpc' = IF cache = NULL THEN "clear"
              ELSE IF has_session_data(heap[cache]) THEN "memset" ELSE "next"
    /\ UNCHANGED <<ht, heap, orig, iter, cache, db_entries, db_freed, released>>
    /\ UNCHANGED observed
    /\ UNCHANGED notCache

\* lines 204-205: the loop test and the test of session_data_size
cache_while ==
    /\ cpc = "while"
    /\ cpc' = IF cache = NULL THEN "clear"
              ELSE IF has_session_data(heap[cache]) THEN "memset" ELSE "free"
    /\ UNCHANGED <<ht, heap, orig, iter, cache, db_entries, db_freed, released>>
    /\ UNCHANGED observed
    /\ UNCHANGED notCache

\* line 206: safe_memset(cache->session_data, 0, cache->session_data_size)
cache_memset ==
    /\ cpc = "memset"
    /\ heap' = [heap EXCEPT ![cache].session_data =
                   safe_memset(@, 0, heap[cache].session_data_size)]
    /\ cpc' = "data_size"
    /\ UNCHANGED <<ht, orig, iter, cache, db_entries, db_freed, released>>
    /\ UNCHANGED observed
    /\ UNCHANGED notCache

\* line 207: cache->session_data_size = 0
cache_data_size ==
    /\ cpc = "data_size"
    /\ heap' = [heap EXCEPT ![cache].session_data_size = 0]
    /\ cpc' = "id_size"
    /\ UNCHANGED <<ht, orig, iter, cache, db_entries, db_freed, released>>
    /\ UNCHANGED observed
    /\ UNCHANGED notCache

\* line 208: cache->session_id_size = 0
cache_id_size ==
    /\ cpc = "id_size"
    /\ heap' = [heap EXCEPT ![cache].session_id_size = 0]
    /\ cpc' = "free"
    /\ UNCHANGED <<ht, orig, iter, cache, db_entries, db_freed, released>>
    /\ UNCHANGED observed
    /\ UNCHANGED notCache

\* line 210: talloc_free(cache)
cache_free ==
    /\ cpc = "free"
    /\ released' = Append(released,
                      [ptr |-> cache,
                       data |-> heap[cache].session_data,
                       size |-> heap[cache].session_data_size])
    /\ heap' = [heap EXCEPT ![cache].freed = TRUE]
    /\ cpc' = "next"
    /\ UNCHANGED <<ht, orig, iter, cache, db_entries, db_freed>>
    /\ UNCHANGED observed
    /\ UNCHANGED notCache

\* line 212: cache = htable_next(&db->ht, &iter)
cache_next ==
    /\ cpc = "next"
    /\ iter' = htable_next(ht, iter).i
    /\ cache' = htable_next(ht, iter).e
    /\ cpc' = "while"
    /\ UNCHANGED <<ht, heap, orig, db_entries, db_freed, released>>
    /\ UNCHANGED observed
    /\ UNCHANGED notCache

\* lines 214-215: htable_clear(&db->ht); db->entries = 0
cache_clear ==
    /\ cpc = "clear"
    /\ ht' = <<>>
    /\ db_entries' = 0
    /\ cpc' = "dbfree"
    /\ UNCHANGED <<heap, orig, iter, cache, db_freed, released>>
    /\ UNCHANGED observed
    /\ UNCHANGED notCache

\* line 216: talloc_free(db)
cache_dbfree ==
    /\ cpc = "dbfree"
    /\ db_freed' = TRUE
    /\ cpc' = "done"
    /\ UNCHANGED <<ht, heap, orig, iter, cache, db_entries, released>>
    /\ UNCHANGED observed
    /\ UNCHANGED notCache

\* A lookup made by another connection while tls_cache_deinit runs: it
\* finds an entry pointer in a slot of db->ht and reads the entry.  Nothing
\* in tls_cache_deinit takes a lock, so the lookup can run between any two
\* of its steps.  It records whether the entry it read had already been
\* released, and whether its scrub had begun.
cache_lookup ==
    /\ cpc # "done"
    /\ \E i \in 1..Len(ht) :
         observed' = [ptr |-> ht[i],
                      freed |-> heap[ht[i]].freed,
                      scrubbing |-> (cache = ht[i] /\ ~heap[ht[i]].freed
                                       /\ cpc \in {"data_size", "id_size", "free"}
                                       /\ has_session_data(orig[ht[i]]))]
    /\ UNCHANGED <<cpc, ht, heap, orig, iter, cache, db_entries, db_freed, released>>
    /\ UNCHANGED notCache

NextCache ==
    \/ cache_first
    \/ cache_while
    \/ cache_memset
    \/ cache_data_size
    \/ cache_id_size
    \/ cache_free
    \/ cache_next
    \/ cache_clear
    \/ cache_dbfree

\* tls_cache_deinit with the lookups of other connections
NextCacheShared ==
    \/ cache_first
    \/ cache_while
    \/ cache_memset
    \/ cache_data_size
    \/ cache_id_size
    \/ cache_free
    \/ cache_next
    \/ cache_clear
    \/ cache_dbfree
    \/ cache_lookup

---------------------------------------------------------------------------
(* key_cb_common_func, key_cb_sign_func, key_cb_decrypt_func, lines 392-478 *)

\* a block pointer; the model has one block per operation
Block == 1

\* operands: byte strings of length 0..MaxOperand over two byte values
Operands == UNION {[1..n -> {10, 11}] : n \in 0..MaxOperand}

\* the first k elements of a sequence
Prefix(q, k) == [i \in 1..k |-> q[i]]

\* lines 419-425, mutated: the operand length is sent before the operand
Request_with_length(i, t, b) == <<i % 256, t, Len(b)>> \o b

\* lines 419-425: header[0] = cdata->idx; header[1] = type; iov = header, raw_data
Request(i, t, b) == <<i % 256, t>> \o b

\* lines 402-403: entry of key_cb_common_func
key_cb_common_func(o, t) ==
    /\ kpc \in {"idle", "returned"}
    /\ \E i \in 0..MaxIdx, b \in Operands :
         /\ idx' = i
         /\ raw_data' = b
    /\ op' = o
    /\ type' = t
    /\ output' = [data |-> NULL, size |-> output.size]
    /\ sd' = "none"
    /\ iov' = <<>>
    /\ wire' = <<>>
    /\ length' = 0
    /\ block' = "none"
    /\ body' = 0
    /\ kret' = None
    /\ sys' = <<>>
    /\ kpc' = "socket"
    /\ UNCHANGED notKey

\* lines 467-472: key_cb_sign_func passes 'S'
key_cb_sign_func == key_cb_common_func("sign", 83)

\* lines 474-478: key_cb_decrypt_func passes 'D'
key_cb_decrypt_func == key_cb_common_func("decrypt", 68)

\* lines 460-463, mutated: the socket is left open
error_noclose(calls, d) ==
    /\ sys' = calls \o <<"free">>
    /\ block' = IF d = NULL THEN block ELSE "freed"
    /\ kret' = GNUTLS_E_INTERNAL_ERROR
    /\ kpc' = "returned"
    /\ UNCHANGED sd

\* lines 460-463: error: close(sd); gnutls_free(output->data); return,
\* where d is output->data at the label (gnutls_free(NULL) does nothing)
error(calls, d) ==
    /\ sd' = "closed"
    /\ sys' = calls \o <<"close", "free">>
    /\ block' = IF d = NULL THEN block ELSE "freed"
    /\ kret' = GNUTLS_E_INTERNAL_ERROR
    /\ kpc' = "returned"

\* lines 404-409: sd = socket(AF_UNIX, SOCK_STREAM, 0)
key_socket ==
    /\ kpc = "socket"
    /\ \E ok \in BOOLEAN :
         IF ok
           THEN /\ sd' = "open"
                /\ sys' = Append(sys, "socket")
                /\ kpc' = "connect"
                /\ UNCHANGED kret
           ELSE /\ sys' = Append(sys, "socket")
                /\ kret' = GNUTLS_E_INTERNAL_ERROR
                /\ kpc' = "returned"
                /\ UNCHANGED sd
    /\ UNCHANGED <<op, idx, type, raw_data, iov, wire, length, output, block, body>>
    /\ UNCHANGED notKey

\* lines 411-417: connect(sd, &cdata->sa, cdata->sa_len)
key_connect ==
    /\ kpc = "connect"
    /\ \E ok \in BOOLEAN :
         IF ok
           THEN /\ sys' = Append(sys, "connect")
                /\ kpc' = "writev"
                /\ UNCHANGED <<sd, kret, block>>
           ELSE error(Append(sys, "connect"), output.data)
    /\ UNCHANGED <<op, idx, type, raw_data, iov, wire, length, output, body>>
    /\ UNCHANGED notKey

\* lines 419-432: ret = writev(sd, iov, 2); -1 is a failure, otherwise the
\* number of bytes transferred, which may be less than requested
key_writev ==
    /\ kpc = "writev"
    /\ iov' = Request(idx, type, raw_data)
    /\ \E n \in {-1} \cup (0..Len(iov')) :
         IF n = -1
           THEN /\ error(Append(sys, "writev"), output.data)
                /\ UNCHANGED wire
           ELSE /\ wire' = wire \o Prefix(iov', n)
                /\ sys' = Append(sys, "writev")
                /\ kpc' = "recv_length"
                /\ UNCHANGED <<sd, kret, block>>
    /\ UNCHANGED <<op, idx, type, raw_data, length, output, body>>
    /\ UNCHANGED notKey

\* lines 434-439: ret = recv(sd, &length, 2, 0); if (ret < 2) goto error
key_recv_length ==
    /\ kpc = "recv_length"
    /\ \E n \in -1..2 :
         IF n < 2
           THEN /\ error(Append(sys, "recv"), output.data)
                /\ UNCHANGED length
           ELSE /\ \E l \in 0..MaxLength : length' = l
                /\ sys' = Append(sys, "recv")
                /\ kpc' = "malloc"
                /\ UNCHANGED <<sd, kret, block>>
    /\ UNCHANGED <<op, idx, type, raw_data, iov, wire, output, body>>
    /\ UNCHANGED notKey

\* lines 441-446: output->size = length; output->data = gnutls_malloc(output->size)
key_malloc ==
    /\ kpc = "malloc"
    /\ \E ok \in BOOLEAN :
         IF ok
           THEN /\ output' = [data |-> Block, size |-> length]
                /\ block' = "live"
                /\ sys' = Append(sys, "malloc")
                /\ kpc' = "recv_body"
                /\ UNCHANGED <<sd, kret>>
           ELSE /\ output' = [data |-> NULL, size |-> length]
                /\ error(Append(sys, "malloc"), NULL)
    /\ UNCHANGED <<op, idx, type, raw_data, iov, wire, length, body>>
    /\ UNCHANGED notKey

\* lines 448-458: ret = recv(sd, output->data, output->size, 0);
\* if (ret <= 0) goto error; output->size = ret; close(sd); return 0
key_recv_body ==
    /\ kpc = "recv_body"
    /\ \E n \in -1..output.size :
         IF n <= 0
           THEN /\ UNCHANGED <<output, body>>
                /\ error(Append(sys, "recv"), output.data)
           ELSE /\ body' = n
                /\ output' = [output EXCEPT !.size = n]
                /\ sd' = "closed"
                /\ sys' = sys \o <<"recv", "close">>
                /\ kret' = 0
                /\ kpc' = "returned"
                /\ UNCHANGED block
    /\ UNCHANGED <<op, idx, type, raw_data, iov, wire, length>>
    /\ UNCHANGED notKey

NextKey ==
    \/ key_cb_sign_func
    \/ key_cb_decrypt_func
    \/ key_socket
    \/ key_connect
    \/ key_writev
    \/ key_recv_length
    \/ key_malloc
    \/ key_recv_body

---------------------------------------------------------------------------
(* verify_certificate_cb, lines 239-293 *)

\* gnutls_certificate_verify_peers2(session, &status): a negative code, or 0
\* with a status word (0 valid, 2 GNUTLS_CERT_INVALID, 34 invalid and
\* revoked, 66 invalid and signer not found)
gnutls_certificate_verify_peers2 ==
    {[ret |-> GNUTLS_E_NO_CERTIFICATE_FOUND, status |-> 0]}
      \cup {[ret |-> 0, status |-> st] : st \in {0, 2, 34, 66}}

\* the value of vcall while the running gate has made no verification call
NoCall == [ret |-> None, status |-> None]

\* gnutls_certificate_verification_status_print: 0 or a negative code
gnutls_certificate_verification_status_print == {0, GNUTLS_E_MEMORY_ERROR}

\* lines 287-291, mutated: the test of the compatibility flag is inverted
fail_inverted(compat) ==
    IF compat # 0 THEN GNUTLS_E_CERTIFICATE_ERROR ELSE 0

\* lines 287-291: fail: if (ws->config->cisco_client_compat == 0) return
\* GNUTLS_E_CERTIFICATE_ERROR; else return 0
fail(compat) ==
    IF compat = 0 THEN GNUTLS_E_CERTIFICATE_ERROR ELSE 0

\* line 251, mutated: the DTLS session is not recognised
is_dtls_session_never(s) == FALSE

\* line 251: if (session == ws->dtls_session)
is_dtls_session(s) == s = "dtls"

\* line 254, mutated: the flag of the previous handshake is kept
cert_auth_ok_kept(f) == f

\* line 254: ws->cert_auth_ok = 0
cert_auth_ok_cleared(f) == 0

\* lines 245-254: the engine runs the callback for one of the sessions of the
\* connection; without worker state it returns -1, for the DTLS session 0,
\* otherwise it clears ws->cert_auth_ok
verify_entry ==
    /\ vpc \in {"idle", "returned"}
    /\ handshakes < MaxHandshakes
    /\ handshakes' = handshakes + 1
    /\ \E s \in {"tls", "dtls", "nows"} :
         /\ session' = s
         /\ IF s = "nows"
              THEN /\ vret' = -1
                   /\ vpc' = "returned"
                   /\ UNCHANGED <<cert_auth_ok, vcall, pret>>
              ELSE IF is_dtls_session(s)
                THEN /\ vret' = 0
                     /\ vpc' = "returned"
                     /\ UNCHANGED <<cert_auth_ok, vcall, pret>>
                ELSE /\ cert_auth_ok' = cert_auth_ok_cleared(cert_auth_ok)
                     /\ vcall' = NoCall
                     /\ pret' = None
                     /\ vret' = None
                     /\ vpc' = "verify"
    /\ UNCHANGED <<cisco_client_compat, vcalls>>
    /\ UNCHANGED notVerify

\* lines 259-265 and 280-286: the verification call and the valid branch
verify_peers ==
    /\ vpc = "verify"
    /\ vcalls' = vcalls + 1
    /\ \E v \in gnutls_certificate_verify_peers2 :
         /\ vcall' = v
         /\ IF v.ret < 0
              THEN /\ vret' = fail(cisco_client_compat)
                   /\ vpc' = "returned"
                   /\ UNCHANGED cert_auth_ok
              ELSE IF v.status # 0
                THEN /\ vpc' = "print"
                     /\ UNCHANGED <<vret, cert_auth_ok>>
                ELSE /\ cert_auth_ok' = 1
                     /\ vret' = 0
                     /\ vpc' = "returned"
    /\ UNCHANGED <<session, cisco_client_compat, pret, handshakes>>
    /\ UNCHANGED notVerify

\* lines 266-279: decode and log the failure reason, then goto fail
verify_print ==
    /\ vpc = "print"
    /\ \E r \in gnutls_certificate_verification_status_print :
         /\ pret' = r
         /\ vret' = fail(cisco_client_compat)
         /\ vpc' = "returned"
    /\ UNCHANGED <<session, cert_auth_ok, cisco_client_compat, vcall, vcalls,
                   handshakes>>
    /\ UNCHANGED notVerify

NextVerify ==
    \/ verify_entry
    \/ verify_peers
    \/ verify_print

---------------------------------------------------------------------------
(* tls_get_overhead, lines 715-763 (the computation of lines 720-761) *)

\* gnutls_protocol_t values
Versions ==
    {"SSL3", "TLS1_0", "TLS1_1", "TLS1_2", "DTLS0_9", "DTLS1_0", "DTLS1_2",
     "VERSION_UNKNOWN"}

\* gnutls_cipher_algorithm_t values
Ciphers ==
    {"3DES_CBC", "AES_128_CBC", "AES_192_CBC", "AES_256_CBC",
     "CAMELLIA_128_CBC", "CAMELLIA_192_CBC", "CAMELLIA_256_CBC",
     "AES_128_GCM", "AES_256_GCM",
     "DES_CBC", "CAMELLIA_128_GCM", "ARCFOUR_128", "NULL"}

\* gnutls_mac_algorithm_t values
Macs == {"MD5", "SHA1", "SHA256", "AEAD", "NULL"}

\* line 722: gnutls_cipher_get_block_size(cipher)
gnutls_cipher_get_block_size(c) ==
    IF c \in {"3DES_CBC", "DES_CBC"} THEN 8
    ELSE IF c \in {"ARCFOUR_128", "NULL"} THEN 1
    ELSE 16

\* line 757: gnutls_hmac_get_len(mac)
gnutls_hmac_get_len(m) ==
    IF m = "MD5" THEN 16
    ELSE IF m = "SHA1" THEN 20
    ELSE IF m = "SHA256" THEN 32
    ELSE 0

\* lines 724-735: the switch on version
version_overhead(v) ==
    IF v \in {"DTLS0_9", "DTLS1_0", "DTLS1_2"} THEN 13 ELSE 5

\* lines 737-755, mutated: the IV block is forgotten
cipher_overhead_noiv(c, bs) ==
    IF c \in {"3DES_CBC", "AES_128_CBC", "AES_256_CBC", "CAMELLIA_128_CBC",
              "CAMELLIA_256_CBC", "AES_192_CBC", "CAMELLIA_192_CBC"}
      THEN bs
    ELSE IF c \in {"AES_128_GCM", "AES_256_GCM"}
      THEN 8 + bs
    ELSE 0

\* lines 737-755: the switch on cipher
cipher_overhead(c, bs) ==
    IF c \in {"3DES_CBC", "AES_128_CBC", "AES_256_CBC", "CAMELLIA_128_CBC",
              "CAMELLIA_256_CBC", "AES_192_CBC", "CAMELLIA_192_CBC"}
      THEN bs + bs
    ELSE IF c \in {"AES_128_GCM", "AES_256_GCM"}
      THEN 8 + bs
    ELSE 0

\* lines 757-759: t = gnutls_hmac_get_len(mac); if (t > 0) overhead += t
mac_overhead(m) ==
    LET t == gnutls_hmac_get_len(m) IN IF t > 0 THEN t ELSE 0

\* lines 720-722: overhead = 0; block_size = gnutls_cipher_get_block_size(cipher)
overhead_entry ==
    /\ opc = "entry"
    /\ overhead' = 0
    /\ block_size' = gnutls_cipher_get_block_size(cipher)
    /\ opc' = "version"
    /\ UNCHANGED <<version, cipher, mac>>
    /\ UNCHANGED notOverhead

\* lines 724-735
overhead_version ==
    /\ opc = "version"
    /\ overhead' = overhead + version_overhead(version)
    /\ opc' = "cipher"
    /\ UNCHANGED <<version, cipher, mac, block_size>>
    /\ UNCHANGED notOverhead

\* lines 737-755
overhead_cipher ==
    /\ opc = "cipher"
    /\ overhead' = overhead + cipher_overhead(cipher, block_size)
    /\ opc' = "mac"
    /\ UNCHANGED <<version, cipher, mac, block_size>>
    /\ UNCHANGED notOverhead

\* lines 757-761: the MAC length is added and overhead is returned
overhead_mac ==
    /\ opc = "mac"
    /\ overhead' = overhead + mac_overhead(mac)
    /\ opc' = "done"
    /\ UNCHANGED <<version, cipher, mac, block_size>>
    /\ UNCHANGED notOverhead

NextOverhead ==
    \/ overhead_entry
    \/ overhead_version
    \/ overhead_cipher
    \/ overhead_mac

---------------------------------------------------------------------------
(* Specifications: one per component; the other components stay idle *)

\* The state before the exercised component starts: no I/O function and no
\* key operation is running; the cache database holds 0..MaxEntries entries
\* and is about to be torn down (an empty one while another component is
\* exercised); the connection has seen no handshake, with either value of
\* the compatibility flag (off while another component is exercised);
\* tls_get_overhead is entered with any version, cipher and MAC.
Init(component) ==
    /\ pc = "idle"
    /\ fn = "none"
    /\ callee = "none"
    /\ data_size = 0
    /\ left = 0
    /\ p = 0
    /\ ret = None
    /\ rv = None
    /\ hist = <<>>
    /\ cpc = "first"
    /\ \E n \in (IF component = "cache" THEN 0..MaxEntries ELSE {0}) :
         /\ heap \in [1..n -> CacheEntries]
         /\ ht = [i \in 1..n |-> i]
         /\ db_entries = n
    /\ orig = heap
    /\ iter = 0
    /\ cache = NULL
    /\ db_freed = FALSE
    /\ released = <<>>
    /\ observed = [ptr |-> NULL, freed |-> FALSE, scrubbing |-> FALSE]
    /\ kpc = "idle"
    /\ op = "none"
    /\ idx = 0
    /\ type = 0
    /\ raw_data = <<>>
    /\ sd = "none"
    /\ iov = <<>>
    /\ wire = <<>>
    /\ length = 0
    /\ output = [data |-> NULL, size |-> 0]
    /\ block = "none"
    /\ body = 0
    /\ kret = None
    /\ sys = <<>>
    /\ vpc = "idle"
    /\ session = "tls"
    /\ cert_auth_ok = 0
    /\ cisco_client_compat \in (IF component = "verify" THEN {0, 1} ELSE {0})
    /\ vcall = NoCall
    /\ pret = None
    /\ vret = None
    /\ vcalls = 0
    /\ handshakes = 0
    /\ opc = "entry"
    /\ version \in (IF component = "overhead" THEN Versions ELSE {"TLS1_0"})
    /\ cipher \in (IF component = "overhead" THEN Ciphers ELSE {"NULL"})
    /\ mac \in (IF component = "overhead" THEN Macs ELSE {"NULL"})
    /\ block_size = 0
    /\ overhead = 0

SpecIO == Init("io") /\ [][NextIO]_vars

SpecCache == Init("cache") /\ [][NextCache]_vars

SpecCacheShared == Init("cache") /\ [][NextCacheShared]_vars

SpecKey == Init("key") /\ [][NextKey]_vars

SpecVerify == Init("verify") /\ [][NextVerify]_vars

SpecOverhead == Init("overhead") /\ [][NextOverhead]_vars

---------------------------------------------------------------------------
(* Properties of the record I/O functions (checked under SpecIO) *)

RECURSIVE SumCounts(_)
\* total number of bytes the engine reported as accepted in a call history
SumCounts(h) ==
    IF h = <<>> THEN 0
    ELSE (IF h[1].res > 0 THEN h[1].res ELSE 0) + SumCounts(Tail(h))

WouldBlockOrInterrupted(r) == r \in {-28, -52}

\* C1: tls_send either returns the full payload size once the engine has
\* accepted all bytes, having seen only byte counts and "would block" /
\* "interrupted" results, or returns unmodified the first negative engine
\* result that is neither of the two; such a result is always the last
\* engine call of the invocation.
C1_SendResult ==
    fn = "tls_send" =>
      /\ \A i \in 1..Len(hist) :
            (hist[i].res < 0 /\ ~WouldBlockOrInterrupted(hist[i].res))
               => (i = Len(hist) /\ pc = "returned" /\ rv = hist[i].res)
      /\ pc = "returned" =>
            \/ /\ rv = data_size
               /\ SumCounts(hist) >= data_size
               /\ \A i \in 1..Len(hist) :
                     hist[i].res >= 0 \/ WouldBlockOrInterrupted(hist[i].res)
            \/ /\ Len(hist) > 0
               /\ rv = hist[Len(hist)].res
               /\ rv < 0 /\ ~WouldBlockOrInterrupted(rv)

\* C1 witness: a full-size return after a "would block", an "interrupted"
\* and then the whole payload accepted
C1_Witness ==
    /\ fn = "tls_send" /\ pc = "returned"
    /\ data_size = MaxSize /\ rv = data_size
    /\ Len(hist) = 3
    /\ hist[1].res = -28 /\ hist[2].res = -52 /\ hist[3].res = data_size

\* C2: in tls_send_nb a "would block" result is always the last engine call
\* and makes the function return the full payload size, whatever was
\* accepted before; an "interrupted" result never ends the function; any
\* other negative result is the last call and is returned unmodified.
C2_SendNbResult ==
    fn = "tls_send_nb" =>
      \A i \in 1..Len(hist) :
         /\ hist[i].res = -28
               => (i = Len(hist) /\ pc = "returned" /\ rv = data_size)
         /\ (hist[i].res = -52 /\ i = Len(hist))
               => (pc = "loop" /\ rv = None)
         /\ (hist[i].res < 0 /\ hist[i].res # -28 /\ hist[i].res # -52)
               => (i = Len(hist) /\ pc = "returned" /\ rv = hist[i].res)

\* C2 witness: "would block" after an "interrupted" and a partial count,
\* reported as full success although fewer bytes were accepted
C2_Witness ==
    /\ fn = "tls_send_nb" /\ pc = "returned"
    /\ Len(hist) = 3
    /\ hist[1].res = -52 /\ hist[2].res = 1 /\ hist[3].res = -28
    /\ SumCounts(hist) < data_size
    /\ rv = data_size

\* C3: tls_recv calls the engine again only after "would block" or
\* "interrupted"; the first result of another kind is returned unchanged
\* and is the last engine call.
C3_RecvResult ==
    fn = "tls_recv" =>
      /\ \A i \in 1..Len(hist) :
            IF WouldBlockOrInterrupted(hist[i].res)
              THEN i = Len(hist) => (pc = "loop" /\ rv = None)
              ELSE i = Len(hist) /\ pc = "returned" /\ rv = hist[i].res
      /\ pc = "returned" => Len(hist) > 0

\* C3 witness: a zero result (peer shutdown) returned after two retries
C3_Witness ==
    /\ fn = "tls_recv" /\ pc = "returned"
    /\ Len(hist) = 3
    /\ hist[1].res = -28 /\ hist[2].res = -52 /\ hist[3].res = 0
    /\ rv = 0

\* C4: the byte count tls_printf forwards to tls_send never exceeds the
\* 1024-byte scratch buffer.
C4_PrintfWithinBuffer ==
    fn = "tls_printf" => data_size <= 1024

---------------------------------------------------------------------------
(* Properties of tls_cache_deinit (checked under SpecCache) *)

\* C5: every entry that held session data when tls_cache_deinit was entered
\* reaches talloc_free with those data bytes zero and its recorded data
\* length zero.
C5_ScrubBeforeRelease ==
    \A i \in 1..Len(released) :
       LET r == released[i]
           o == orig[r.ptr]
       IN  o.session_data_size > 0 =>
             /\ r.size = 0
             /\ \A k \in 1..o.session_data_size : r.data[k] = 0

\* C5 witness: two entries released, the first held one non-zero byte, the
\* second a full array of non-zero bytes
C5_Witness ==
    /\ cpc = "done"
    /\ Len(released) = 2
    /\ orig[released[1].ptr].session_data_size = 1
    /\ orig[released[1].ptr].session_data[1] = 7
    /\ orig[released[2].ptr].session_data_size = MaxData
    /\ \A k \in 1..MaxData : orig[released[2].ptr].session_data[k] = 7

---------------------------------------------------------------------------
(* Properties of the key-delegation operations (checked under SpecKey) *)

\* number of occurrences of a call in a sequence of calls
Count(q, c) == Cardinality({i \in 1..Len(q) : q[i] = c})

\* C6: an operation that received fewer body bytes than the length field
\* announced yields the internal-failure result and hands no buffer to the
\* engine; success is returned only when exactly `length` body bytes were read.
C6_ShortBodyFails ==
    (kpc = "returned" /\ Count(sys, "recv") = 2) =>
       /\ body < length => (kret = -59 /\ block # "live")
       /\ kret = 0 => body = length

\* C7: the request handed to writev is exactly the index byte, the tag byte
\* ('S' = 83 for sign, 'D' = 68 for decrypt) and the operand bytes, without a
\* length prefix; there is one writev per connection and nothing but (a
\* prefix of) this request is transferred on it.
C7_RequestBytes ==
    LET tag == IF op = "sign" THEN 83 ELSE 68
        request == <<idx, tag>> \o raw_data
    IN  /\ Count(sys, "writev") <= 1
        /\ Count(sys, "writev") = 0 => wire = <<>>
        /\ Count(sys, "writev") = 1 =>
             /\ iov = request
             /\ Len(iov) = 2 + Len(raw_data)
             /\ Len(wire) <= Len(iov)
             /\ \A i \in 1..Len(wire) : wire[i] = iov[i]
        /\ kret = 0 => Count(sys, "writev") = 1

\* C7 witness: a decrypt operation with index 1 and operand <<10, 11>> whose
\* request reached the custodian in full and which succeeded
C7_Witness ==
    /\ kpc = "returned" /\ kret = 0
    /\ op = "decrypt"
    /\ wire = <<1, 68, 10, 11>>

\* C8: every failure returns the internal-failure code and leaves the
\* caller's output without a buffer: output->data refers to no block, live
\* or released.
C8_FailureLeavesNoBuffer ==
    (kpc = "returned" /\ kret # 0) =>
       /\ kret = -59
       /\ output.data = NULL
       /\ block # "live"

\* C9: an operation creates at most one socket; when it has returned, a
\* created socket has been closed exactly once, after every other system
\* call on it, and a failed socket() is followed by no close and no other step.
C9_ClosedExactlyOnce ==
    /\ Count(sys, "socket") <= 1
    /\ Count(sys, "close") <= 1
    /\ kpc = "socket" => sd = "none"
    /\ kpc = "returned" =>
         IF sd = "none"
           THEN sys = <<"socket">>
           ELSE /\ sd = "closed"
                /\ Count(sys, "close") = 1
                /\ sys[1] = "socket"
                /\ \A i \in 1..Len(sys) :
                      sys[i] = "close" =>
                         \A j \in (i + 1)..Len(sys) : sys[j] = "free"
    /\ kpc \notin {"idle", "socket", "returned"} => (sd = "open" /\ Count(sys, "close") = 0)

\* C9 witness: a failed connect, after which the socket was closed
C9_Witness ==
    /\ kpc = "returned"
    /\ sys = <<"socket", "connect", "close", "free">>
    /\ sd = "closed"

---------------------------------------------------------------------------
(* Properties of verify_certificate_cb (checked under SpecVerify) *)

\* C10: when the callback has run the gate for the primary session: a fully
\* valid verdict sets the authentication flag and lets the handshake proceed;
\* a verdict that is not valid fails the handshake with the certificate-error
\* code when compatibility is off, and lets it proceed with the flag false
\* when compatibility is on.
C10_GateOutcomes ==
    (vpc = "returned" /\ session = "tls") =>
       LET valid == vcall.ret >= 0 /\ vcall.status = 0
       IN  /\ valid => (cert_auth_ok = 1 /\ vret = 0)
           /\ (~valid /\ cisco_client_compat = 0) => vret = -43
           /\ (~valid /\ cisco_client_compat # 0) => (vret = 0 /\ cert_auth_ok = 0)

\* C10 witness: a second handshake with compatibility on whose certificate
\* is invalid, let through with the flag false
C10_Witness ==
    /\ vpc = "returned" /\ session = "tls"
    /\ handshakes = 2
    /\ cisco_client_compat = 1
    /\ vcall = [ret |-> 0, status |-> 2]
    /\ vret = 0 /\ cert_auth_ok = 0

\* C11: a run of the callback for the secondary (DTLS) session makes no
\* chain-validation call, lets the handshake proceed and leaves the
\* authentication flag as it was, with either value of the compatibility flag.
C11_SecondarySkipsGate ==
    [][(handshakes' = handshakes + 1 /\ session' = "dtls") =>
          /\ vpc' = "returned"
          /\ vret' = 0
          /\ vcalls' = vcalls
          /\ cert_auth_ok' = cert_auth_ok]_vars

\* C11 witness: with compatibility off, a DTLS run after a primary handshake
\* that authenticated the peer: one validation call in all, flag still true
C11_Witness ==
    /\ vpc = "returned" /\ session = "dtls"
    /\ handshakes = 2 /\ vcalls = 1
    /\ cisco_client_compat = 0
    /\ cert_auth_ok = 1 /\ vret = 0

\* C20: whenever no gate run is in progress, the authentication flag is true
\* exactly when the most recent gate run on the primary session obtained a
\* fully valid verdict (no error from the validation call and status 0).
C20_FlagTracksLastVerdict ==
    vpc \in {"idle", "returned"} =>
       (cert_auth_ok = 1 <=>
          (vcall.ret >= 0 /\ vcall.status = 0))

\* C20 witness: with compatibility on, a third run whose verdict was invalid
\* and whose failure reason could not be decoded; the handshake proceeds
\* with the flag false
C20_Witness ==
    /\ vpc = "returned" /\ session = "tls"
    /\ handshakes = 3 /\ vcalls >= 2
    /\ cisco_client_compat = 1
    /\ vcall = [ret |-> 0, status |-> 66]
    /\ pret = -25
    /\ vret = 0 /\ cert_auth_ok = 0

---------------------------------------------------------------------------
(* Properties of tls_get_overhead (checked under SpecOverhead) *)

\* C12: for a block cipher of the recognised list (block 8 for 3DES, 16 for
\* AES and Camellia) with a separate MAC (16, 20 or 32 bytes), the result is
\* header + block + block + MAC length with header 5 on the stream versions
\* and 13 on the datagram versions; a 16-byte block with a 20-byte MAC gives
\* 57 and 65.
C12_BlockCipherOverhead ==
    (opc = "done"
       /\ version \in {"SSL3", "TLS1_0", "TLS1_1", "TLS1_2", "DTLS0_9", "DTLS1_0", "DTLS1_2"}
       /\ cipher \in {"3DES_CBC", "AES_128_CBC", "AES_192_CBC", "AES_256_CBC",
                      "CAMELLIA_128_CBC", "CAMELLIA_192_CBC", "CAMELLIA_256_CBC"}
       /\ mac \in {"MD5", "SHA1", "SHA256"}) =>
       LET header == IF version \in {"DTLS0_9", "DTLS1_0", "DTLS1_2"} THEN 13 ELSE 5
           blk == IF cipher = "3DES_CBC" THEN 8 ELSE 16
           maclen == IF mac = "MD5" THEN 16 ELSE IF mac = "SHA1" THEN 20 ELSE 32
       IN  /\ overhead = header + blk + blk + maclen
           /\ (blk = 16 /\ maclen = 20) => overhead = (IF header = 5 THEN 57 ELSE 65)

\* C12 witness: AES-128-CBC with SHA1 on DTLS 1.0 gives 65
C12_Witness ==
    /\ opc = "done"
    /\ version = "DTLS1_0" /\ cipher = "AES_128_CBC" /\ mac = "SHA1"
    /\ overhead = 65

\* C13: for an AEAD cipher with an 8-byte explicit nonce and a 16-byte tag the
\* result is exactly header + 8 + 16, for every version and every MAC
\* argument.
C13_AeadOverhead ==
    (opc = "done" /\ cipher \in {"AES_128_GCM", "AES_256_GCM"}) =>
       overhead = (IF version \in {"DTLS0_9", "DTLS1_0", "DTLS1_2"} THEN 13 ELSE 5) + 8 + 16

\* the per-record overhead of a combination, by the kind of its cipher:
\* header, then two blocks and the MAC for a block cipher, nonce and tag for
\* an AEAD cipher, the MAC alone for a stream or null cipher
TrueOverhead(v, c, m) ==
    LET header == IF v \in {"DTLS0_9", "DTLS1_0", "DTLS1_2"} THEN 13 ELSE 5
        maclen == IF m = "MD5" THEN 16 ELSE IF m = "SHA1" THEN 20
                  ELSE IF m = "SHA256" THEN 32 ELSE 0
    IN  IF c \in {"AES_128_GCM", "AES_256_GCM", "CAMELLIA_128_GCM"}
          THEN header + 8 + 16
        ELSE IF c \in {"3DES_CBC", "DES_CBC"}
          THEN header + 8 + 8 + maclen
        ELSE IF c \in {"ARCFOUR_128", "NULL"}
          THEN header + maclen
        ELSE header + 16 + 16 + maclen

\* C14: for a cipher that falls into the default branch of the cipher
\* switch, the result is never smaller than the true per-record overhead.
C14_UnknownNeverSmaller ==
    (opc = "done"
       /\ cipher \in {"DES_CBC", "CAMELLIA_128_GCM", "ARCFOUR_128", "NULL"}) =>
       overhead >= TrueOverhead(version, cipher, mac)

---------------------------------------------------------------------------
(* Further properties of the send loops (checked under SpecIO) *)

\* C16: in tls_send and tls_send_nb every engine send call starts at the
\* offset equal to the number of bytes accepted so far and requests at most
\* the bytes that remain, so the bytes accepted never exceed the payload size.
C16_ByteAccurate ==
    fn \in {"tls_send", "tls_send_nb"} =>
      /\ \A i \in 1..Len(hist) :
            /\ hist[i].off = SumCounts(SubSeq(hist, 1, i - 1))
            /\ hist[i].off + hist[i].req <= data_size
      /\ SumCounts(hist) <= data_size

\* C19: in tls_send every engine result other than "would block" and
\* "interrupted" either ends the loop or strictly reduces the number of
\* bytes left.
C19_OtherResultsMakeProgress ==
    [][(fn' = "tls_send" /\ pc = "loop" /\ Len(hist') = Len(hist) + 1
          /\ hist'[Len(hist')].res \notin {-28, -52})
         => (pc' = "returned" \/ left' < left)]_vars

---------------------------------------------------------------------------
(* Further properties of the key-delegation operations (checked under SpecKey) *)

\* C18: the response is read only after the complete request has been
\* written: an operation whose writev transferred fewer bytes than the
\* request makes no recv call and returns the internal-failure result.
C18_ReadOnlyAfterFullWrite ==
    (Count(sys, "writev") = 1 /\ Len(wire) < Len(iov)) =>
       /\ Count(sys, "recv") = 0
       /\ kpc = "returned" => kret = -59

---------------------------------------------------------------------------
(* Further properties of tls_cache_deinit (checked under SpecCache) *)

\* the entry pointers talloc_free has received so far
ReleasedPtrs == {released[i].ptr : i \in 1..Len(released)}

\* C17: tls_cache_deinit releases only entries of the table and none twice;
\* once the loop is over every entry has been released; the table is
\* cleared, the counter reset and the database released only after that.
C17_EveryEntryOnceThenDb ==
    /\ \A i, j \in 1..Len(released) :
          i # j => released[i].ptr # released[j].ptr
    /\ ReleasedPtrs \subseteq DOMAIN orig
    /\ cpc \in {"clear", "dbfree", "done"} => ReleasedPtrs = DOMAIN orig
    /\ ReleasedPtrs # DOMAIN orig =>
          (Len(ht) = Len(orig) /\ db_entries = Len(orig) /\ ~db_freed)
    /\ db_freed => (ht = <<>> /\ db_entries = 0)
    /\ cpc = "done" => db_freed

\* C17 witness: a table of two entries, one with and one without session
\* data, both released before the database
C17_Witness ==
    /\ cpc = "done" /\ db_freed
    /\ Len(released) = 2
    /\ orig[released[1].ptr].session_data_size = 0
    /\ orig[released[2].ptr].session_data_size > 0
    /\ ht = <<>> /\ db_entries = 0

---------------------------------------------------------------------------
(* tls_cache_deinit among other connections (checked under SpecCacheShared) *)

\* C15: no lookup of another connection reads an entry between the start of
\* its scrub and its release, or after it has been released.
C15_NoLookupDuringScrubOrAfterFree ==
    observed.ptr # NULL => (~observed.freed /\ ~observed.scrubbing)

=============================================================================
